---- MODULE Spec2Model ----
(***************************************************************************)
(* Model of the walk scheduler of src/index.js: the /api/schedule-walk     *)
(* handler, the activeJobs registry, and the activation and timeout job    *)
(* callbacks running against the document store.  Time is in milliseconds. *)
(* Code between two awaits of a callback is one atomic step (Node runs it  *)
(* without interruption); every await is a separate step, so callbacks,    *)
(* requests and external store updates interleave at the awaits.  resp is  *)
(* the response of the request just handled and last the result of the     *)
(* callback step just taken; any other step clears them.  commits counts   *)
(* the batches committed for each walk.                                    *)
(***************************************************************************)
EXTENDS Integers, Sequences, FiniteSets, TLC

\* ---------------------------------------------------------------- bounds
MaxRequests == 2      \* schedule requests that reach the scheduling block
MaxInFlight == 2      \* callbacks between their first and their last await
MaxMinutes == 7       \* horizon of the clock, in minutes

\* ------------------------------------------------------------- constants
Minute == 60000                 \* src/index.js:193, 196
GraceMinutes == 5               \* src/index.js:196
HandlerDelays == {0, 1}         \* ms that may pass between line 190 and line 217

Walks == {"w1", "w2"}
Users == {"u1", "u2", "u3"}
Missing == ""                   \* an absent (falsy) request field
Absent == "absent"              \* a document field that does not exist
Null == "null"                  \* a field that exists with a falsy value

\* the walks that have a requests/{walkId} record, and the walks that the rest
\* of the application starts or deletes while their jobs are scheduled
LinkedWalks == {"w1"}
ExternalWalks == {"w1"}
\* the walks whose callbacks meet store failures when both walks are scheduled
FaultyWalks == {"w1"}

\* the parties of each walk, as the client sends them
PartiesOf == [w \in Walks |-> IF w = "w1" THEN <<"u1", "u2">> ELSE <<"u3", "u2">>]
\* users/{id}.fcmToken as stored (u3 has registered no device)
fcmToken == [u \in Users |-> IF u = "u3" THEN Absent ELSE "token"]

VARIABLES clock, walks, requests, users, jobs, activeJobs, commits, resp, last
vars == <<clock, walks, requests, users, jobs, activeJobs, commits, resp, last>>

\* ------------------------------------------------------------ time stamps
ToISO(ms) == [kind |-> "iso", ms |-> ms]
Garbage == [kind |-> "garbage", ms |-> 0]
NoTimestamp == [kind |-> "missing", ms |-> 0]

\* new Date(s): a valid instant, or an Invalid Date whose getTime() is NaN
ParseDate(s) == IF s.kind = "iso" THEN [valid |-> TRUE, ms |-> s.ms]
                ELSE [valid |-> FALSE, ms |-> 0]

\* ------------------------------------------------------------------ jobs
NoSnap == [exists |-> FALSE, status |-> "none", activeWalkIdSet |-> FALSE]
NoEntry == [activation |-> 0, timeout |-> 0]
JobIds == DOMAIN jobs

\* a job made by schedule.scheduleJob with the values its callback closes over;
\* registered: the handler stored it with activeJobs.set
NewJob(kind, req, at, registered) ==
    [walk |-> req.walkId, kind |-> kind, sender |-> req.senderId,
     recipient |-> req.recipientId, at |-> at, pc |-> "pending",
     registered |-> registered, snap |-> NoSnap, reqExists |-> FALSE]

Live(j) == jobs[j].pc = "pending"
Running(j) == jobs[j].pc \in {"get", "commit", "notify"}
LiveJobs(w, kind) == {j \in JobIds : Live(j) /\ jobs[j].walk = w /\ jobs[j].kind = kind}

\* Job.cancel(): a pending invocation is removed; a fired one is untouched.
\* (Nothing looks at the date of a job that will not fire.)
CancelJob(js, id) ==
    IF id = 0 THEN js
    ELSE [js EXCEPT ![id] = IF @.pc = "pending"
                            THEN [@ EXCEPT !.pc = "cancelled", !.at = 0] ELSE @]

\* the handles cancelExistingJobs(walkId) calls cancel() on
CancelledHandles(reg, walkId) == {reg[walkId].activation, reg[walkId].timeout} \ {0}

\* variants that forget one of the two handles
cancelExistingJobsActivationOnly(js, reg, walkId) ==
    IF reg[walkId] # NoEntry THEN CancelJob(js, reg[walkId].activation) ELSE js
cancelExistingJobsTimeoutOnly(js, reg, walkId) ==
    IF reg[walkId] # NoEntry THEN CancelJob(js, reg[walkId].timeout) ELSE js

\* a variant that cancels the handles of every entry of the map
cancelExistingJobsEveryWalk(js, reg, walkId) ==
    IF reg[walkId] # NoEntry
    THEN [k \in DOMAIN js |->
            IF \E v \in Walks : k \in {reg[v].activation, reg[v].timeout}
            THEN CancelJob(js, k)[k] ELSE js[k]]
    ELSE js

\* cancelExistingJobs(walkId): the effect on the jobs ...
cancelExistingJobs(js, reg, walkId) ==
    IF reg[walkId] # NoEntry
    THEN CancelJob(CancelJob(js, reg[walkId].activation), reg[walkId].timeout)
    ELSE js

\* ... and on the activeJobs map
activeJobsDelete(reg, walkId) == [reg EXCEPT ![walkId] = NoEntry]

\* --------------------------------------------------------------- handler
NoReq == [walkId |-> Missing, senderId |-> Missing, recipientId |-> Missing,
          scheduledTimestampISO |-> NoTimestamp]
NoResp == [status |-> 0, req |-> NoReq, now |-> 0, scheduledTime |-> NoTimestamp,
           timeoutTime |-> NoTimestamp, activation |-> 0, timeout |-> 0,
           prevEntry |-> NoEntry, cancelled |-> {}, again |-> FALSE]
NoLast == [op |-> "none", job |-> 0, snap |-> NoSnap, afterActivation |-> FALSE,
           outcome |-> "none", cancelled |-> {}, attempted |-> {}, delivered |-> {}]

\* a variant that does not look at recipientId
HasRequiredFieldsNoRecipient(req) ==
    /\ req.walkId # Missing
    /\ req.senderId # Missing
    /\ req.scheduledTimestampISO.kind # "missing"

\* line 172
HasRequiredFields(req) ==
    /\ req.walkId # Missing
    /\ req.senderId # Missing
    /\ req.recipientId # Missing
    /\ req.scheduledTimestampISO.kind # "missing"

\* a variant that also moves a request for the present instant
ScheduledDateInclusive(d, now) == IF d <= now THEN now + Minute ELSE d

\* lines 183-194: the activation instant
ScheduledDate(d, now) == IF d < now THEN now + Minute ELSE d

\* a variant without the grace period
TimeoutDateNoGrace(scheduled) == scheduled

\* line 196
TimeoutDate(scheduled) == scheduled + GraceMinutes * Minute

\* schedule.scheduleJob(date, fn): no job (null) for a date already past
ScheduleJobOk(date, nowAtCall) == date >= nowAtCall

\* the well-formed requests clients send for the walks ws and the instants rs
ValidRequests(ws, rs) ==
    {[walkId |-> w, senderId |-> PartiesOf[w][1], recipientId |-> PartiesOf[w][2],
      scheduledTimestampISO |-> ToISO(r)] : w \in ws, r \in rs}

\* requested instants: ten minutes ago, now, in a minute
Past == clock - 10 * Minute
Soon == clock + Minute

InvalidRequests ==
    LET q == [walkId |-> "w1", senderId |-> "u1", recipientId |-> "u2",
              scheduledTimestampISO |-> ToISO(clock)]
    IN {[q EXCEPT !.walkId = Missing], [q EXCEPT !.senderId = Missing],
        [q EXCEPT !.recipientId = Missing],
        [q EXCEPT !.scheduledTimestampISO = NoTimestamp],
        [q EXCEPT !.scheduledTimestampISO = Garbage]}

\* lines 172-178 and 204-210
Reject(req) ==
    /\ resp' = [NoResp EXCEPT !.status = 400]
    /\ last' = NoLast
    /\ UNCHANGED <<clock, walks, requests, users, jobs, activeJobs, commits>>

\* lines 212-385, for a request that passed validation
Register(req, elapsed) ==
    LET walkId == req.walkId
        now == clock
        scheduledDate == ScheduledDate(ParseDate(req.scheduledTimestampISO).ms, now)
        timeoutDate == TimeoutDate(scheduledDate)
        cancelled == cancelExistingJobs(jobs, activeJobs, walkId)
        cleared == activeJobsDelete(activeJobs, walkId)
        actOk == ScheduleJobOk(scheduledDate, now + elapsed)
        toOk == ScheduleJobOk(timeoutDate, now + elapsed)
        n == Len(jobs)
        actId == IF actOk THEN n + 1 ELSE 0
        toId == IF toOk THEN (IF actOk THEN n + 2 ELSE n + 1) ELSE 0
        ok == actOk /\ toOk
        newA == NewJob("activation", req, scheduledDate, ok)
        newT == NewJob("timeout", req, timeoutDate, ok)
        added == (IF actOk THEN <<newA>> ELSE <<>>) \o (IF toOk THEN <<newT>> ELSE <<>>)
    IN  /\ Cardinality({j \in JobIds : jobs[j].kind = "timeout"}) < MaxRequests
        /\ jobs' = cancelled \o added
        /\ activeJobs' = IF ok THEN [cleared EXCEPT ![walkId] =
                                        [activation |-> actId, timeout |-> toId]]
                         ELSE cleared
        /\ resp' = [status |-> IF ok THEN 200 ELSE 500,
                    req |-> req, now |-> now,
                    scheduledTime |-> IF ok THEN ToISO(scheduledDate) ELSE NoTimestamp,
                    timeoutTime |-> IF ok THEN ToISO(timeoutDate) ELSE NoTimestamp,
                    activation |-> actId, timeout |-> toId,
                    prevEntry |-> activeJobs[walkId],
                    cancelled |-> CancelledHandles(activeJobs, walkId),
                    again |-> resp.status = 200 /\ resp.req.walkId = walkId]
        /\ last' = NoLast
        /\ UNCHANGED <<clock, walks, requests, users, commits>>

\* app.post("/api/schedule-walk")
ScheduleWalk(req, elapsed) ==
    IF ~HasRequiredFields(req) \/ ~ParseDate(req.scheduledTimestampISO).valid
    THEN Reject(req)
    ELSE Register(req, elapsed)

\* ----------------------------------------------------------------- store
MissingDoc == [exists |-> FALSE, status |-> "none", activeWalkIdSet |-> FALSE,
               activatedAt |-> FALSE, expiredAt |-> FALSE]
MissingRequest == [exists |-> FALSE, status |-> "none", expiredAt |-> FALSE]

Init ==
    /\ clock = 0
    /\ walks = [w \in Walks |-> [exists |-> TRUE, status |-> "Accepted",
                                 activeWalkIdSet |-> FALSE, activatedAt |-> FALSE,
                                 expiredAt |-> FALSE]]
    /\ requests = [w \in Walks |-> IF w \in LinkedWalks
                                    THEN [exists |-> TRUE, status |-> "Accepted",
                                          expiredAt |-> FALSE]
                                    ELSE MissingRequest]
    /\ users = [u \in Users |-> [activeWalkId |-> Absent]]
    /\ jobs = <<>>
    /\ activeJobs = [w \in Walks |-> NoEntry]
    /\ commits = [w \in Walks |-> [activation |-> 0, timeout |-> 0]]
    /\ resp = NoResp
    /\ last = NoLast

\* ----------------------------------------------------------------- timer
\* time passes, up to the next instant at which a pending job is due
Tick ==
    /\ \E j \in JobIds :
          /\ Live(j) /\ jobs[j].at > clock /\ jobs[j].at <= MaxMinutes * Minute
          /\ \A k \in JobIds : Live(k) /\ jobs[k].at > clock => jobs[k].at >= jobs[j].at
          /\ clock' = jobs[j].at
    /\ resp' = NoResp
    /\ last' = NoLast
    /\ UNCHANGED <<walks, requests, users, jobs, activeJobs, commits>>

\* node-schedule invokes the pending job with the earliest date once it is due
Fire(j) ==
    /\ Live(j)
    /\ Cardinality({k \in JobIds : Running(k)}) < MaxInFlight
    /\ clock >= jobs[j].at
    /\ \A k \in JobIds : Live(k) => jobs[k].at >= jobs[j].at
    /\ jobs' = [jobs EXCEPT ![j].pc = "get"]
    /\ resp' = NoResp
    /\ last' = NoLast
    /\ UNCHANGED <<clock, walks, requests, users, activeJobs, commits>>

\* a callback that returns or lands in its catch block keeps nothing
Finished(job) == [job EXCEPT !.pc = "done", !.snap = NoSnap, !.reqExists = FALSE,
                             !.at = 0]

\* variants of the catch block: one that cleans up, one that runs the job again
CaughtCancels(js, reg, j) ==
    cancelExistingJobs([js EXCEPT ![j] = Finished(@)], reg, js[j].walk)
CaughtRetries(js, reg, j) == [js EXCEPT ![j].pc = "pending"]

\* the catch blocks (lines 276-278 and 353-355) log the error and the callback
\* returns: the effect on the jobs, given the activeJobs map reg
Caught(js, reg, j) == [js EXCEPT ![j] = Finished(@)]

ActivationCommitted(w) == commits[w].activation > 0

\* a variant without the status check, and one without the marker check
ActivationGuardNoStatus(snap) ==
    IF ~snap.exists THEN "cleanup"
    ELSE IF snap.activeWalkIdSet = TRUE THEN "skip"
    ELSE "go"
ActivationGuardNoMarker(snap) ==
    IF ~snap.exists THEN "cleanup"
    ELSE IF snap.status # "Accepted" THEN "cleanup"
    ELSE "go"

\* a variant that also cleans up when the walk is already activated
ActivationGuardSkipCleans(snap) ==
    IF ~snap.exists THEN "cleanup"
    ELSE IF snap.status # "Accepted" THEN "cleanup"
    ELSE IF snap.activeWalkIdSet = TRUE THEN "cleanup"
    ELSE "go"

\* lines 224-241: "cleanup" and return, "skip" (return), or "go" on to the batch
ActivationGuardOutcome(snap) ==
    IF ~snap.exists THEN "cleanup"
    ELSE IF snap.status # "Accepted" THEN "cleanup"
    ELSE IF snap.activeWalkIdSet = TRUE THEN "skip"
    ELSE "go"

\* a variant without the status check, and one that also checks the marker
TimeoutGuardNoStatus(snap) ==
    IF ~snap.exists THEN "cleanup"
    ELSE "go"
TimeoutGuardWithMarker(snap) ==
    IF ~snap.exists THEN "cleanup"
    ELSE IF snap.status # "Accepted" THEN "cleanup"
    ELSE IF snap.activeWalkIdSet = TRUE THEN "skip"
    ELSE "go"

\* lines 289-301
TimeoutGuardOutcome(snap) ==
    IF ~snap.exists THEN "cleanup"
    ELSE IF snap.status # "Accepted" THEN "cleanup"
    ELSE "go"

GuardOutcome(job, snap) ==
    IF job.kind = "activation" THEN ActivationGuardOutcome(snap)
    ELSE TimeoutGuardOutcome(snap)

WalkSnapshot(w) == [exists |-> walks[w].exists, status |-> walks[w].status,
                    activeWalkIdSet |-> walks[w].activeWalkIdSet]

\* await walkRef.get() and the guards after it (lines 221-241 and 286-301).
\* The read takes effect when its continuation runs: a status other than
\* Accepted and a deleted document never revert, so the cleanup branches see
\* the same record at both moments, and the other branches touch no shared
\* state before their next await.  The timeout callback goes on to await
\* requestRef.get() (lines 312-319): nothing creates or deletes a requests
\* record, so that read is part of this step; ok is FALSE when either read
\* throws.
WalkGet(j, ok) ==
    /\ jobs[j].pc = "get"
    /\ LET w == jobs[j].walk
           snap == WalkSnapshot(w)
           outcome == GuardOutcome(jobs[j], snap)
           cleanup == ok /\ outcome = "cleanup"
       IN /\ jobs' = IF ~ok THEN Caught(jobs, activeJobs, j)
                     ELSE IF outcome = "cleanup"
                     THEN cancelExistingJobs([jobs EXCEPT ![j] = Finished(@)], activeJobs, w)
                     ELSE IF outcome = "skip" THEN [jobs EXCEPT ![j] = Finished(@)]
                     ELSE [jobs EXCEPT ![j].snap = snap,
                                       ![j].reqExists = jobs[j].kind = "timeout"
                                                        /\ requests[w].exists,
                                       ![j].pc = "commit"]
          /\ activeJobs' = IF cleanup THEN activeJobsDelete(activeJobs, w) ELSE activeJobs
          /\ last' = [NoLast EXCEPT !.op = "get", !.job = j,
                        !.snap = IF ok THEN snap ELSE NoSnap,
                        !.afterActivation = ActivationCommitted(w),
                        !.outcome = IF ok THEN outcome ELSE "caught",
                        !.cancelled = IF cleanup THEN CancelledHandles(activeJobs, w) ELSE {}]
    /\ resp' = NoResp
    /\ UNCHANGED <<clock, walks, requests, users, commits>>

\* a variant that stores a falsy value instead of deleting the field
ExpiredActiveWalkIdNull == Null

\* the value the expiry batch gives the parties' activeWalkId (lines 321-326)
ExpiredActiveWalkId == Absent

\* the activation batch (lines 244-250) applied to the store
ActivationWalk(doc) == [doc EXCEPT !.activeWalkIdSet = TRUE, !.activatedAt = TRUE]
ActivationUsers(us, job) ==
    [u \in Users |-> IF u \in {job.sender, job.recipient}
                     THEN [us[u] EXCEPT !.activeWalkId = job.walk] ELSE us[u]]

\* a variant whose batch lacks the update of the recipient
ExpiryUsersSenderOnly(us, job) ==
    [u \in Users |-> IF u = job.sender
                     THEN [us[u] EXCEPT !.activeWalkId = ExpiredActiveWalkId] ELSE us[u]]

\* the expiry batch (lines 306-326) applied to the store
ExpiryWalk(doc) == [doc EXCEPT !.status = "Expired", !.expiredAt = TRUE]
ExpiryRequest(doc, job) ==
    IF job.reqExists THEN [doc EXCEPT !.status = "Expired", !.expiredAt = TRUE] ELSE doc
ExpiryUsers(us, job) ==
    [u \in Users |-> IF u \in {job.sender, job.recipient}
                     THEN [us[u] EXCEPT !.activeWalkId = ExpiredActiveWalkId] ELSE us[u]]

\* await batch.commit() (line 252); an update of a missing document fails the batch
ActivationCommit(j, ok) ==
    /\ jobs[j].pc = "commit"
    /\ jobs[j].kind = "activation"
    /\ LET done == ok /\ walks[jobs[j].walk].exists
       IN /\ IF done
             THEN /\ walks' = [walks EXCEPT ![jobs[j].walk] = ActivationWalk(@)]
                  /\ users' = ActivationUsers(users, jobs[j])
                  /\ commits' = [commits EXCEPT ![jobs[j].walk].activation = @ + 1]
                  /\ jobs' = [jobs EXCEPT ![j].pc = "notify"]
             ELSE /\ jobs' = Caught(jobs, activeJobs, j)
                  /\ UNCHANGED <<walks, users, commits>>
          /\ last' = [NoLast EXCEPT !.op = "commit", !.job = j,
                                    !.snap = jobs[j].snap,
                                    !.outcome = IF done THEN "go" ELSE "caught"]
    /\ resp' = NoResp
    /\ UNCHANGED <<clock, requests, activeJobs>>

\* await batch.commit() (line 328)
TimeoutCommit(j, ok) ==
    /\ jobs[j].pc = "commit"
    /\ jobs[j].kind = "timeout"
    /\ LET done == /\ ok
                   /\ walks[jobs[j].walk].exists
                   /\ jobs[j].reqExists => requests[jobs[j].walk].exists
       IN /\ IF done
             THEN /\ walks' = [walks EXCEPT ![jobs[j].walk] = ExpiryWalk(@)]
                  /\ requests' = [requests EXCEPT ![jobs[j].walk] = ExpiryRequest(@, jobs[j])]
                  /\ users' = ExpiryUsers(users, jobs[j])
                  /\ commits' = [commits EXCEPT ![jobs[j].walk].timeout = @ + 1]
                  /\ jobs' = [jobs EXCEPT ![j].pc = "notify"]
             ELSE /\ jobs' = Caught(jobs, activeJobs, j)
                  /\ UNCHANGED <<walks, requests, users, commits>>
          /\ last' = [NoLast EXCEPT !.op = "commit", !.job = j,
                                    !.snap = jobs[j].snap,
                                    !.outcome = IF done THEN "go" ELSE "caught"]
    /\ resp' = NoResp
    /\ UNCHANGED <<clock, activeJobs>>

\* a variant that sends only when both parties have a token
TokensOfAllOrNone(job) ==
    IF \A u \in {job.sender, job.recipient} : fcmToken[u] # Absent
    THEN {job.sender, job.recipient} ELSE {}

\* the parties whose getFCMToken result is truthy (lines 54-57)
TokensOf(job) == {u \in {job.sender, job.recipient} : fcmToken[u] # Absent}

\* what the transport does with the sends of one callback: it delivers all of
\* them, or the send to the sender fails
DeliveryOutcomes(job) == {TokensOf(job), TokensOf(job) \ {job.sender}}

\* a variant without the try/catch: a transport error rejects the promise
sendFCMUnguarded(transportOk) == IF transportOk THEN "resolved" ELSE "rejected"

\* sendFCM (lines 60-76): the promise resolves whether or not the transport
\* delivered, because the catch of line 73 swallows the error
sendFCM(transportOk) == "resolved"

\* a variant in which the activation callback has the cleanup instead
CleansUpAfterNotifyActivation(job) == job.kind = "activation"

\* a variant in which every callback ends with the cleanup
CleansUpAfterNotifyAlways(job) == TRUE

\* only the timeout callback ends with cancelExistingJobs (line 351); the
\* activation callback ends at line 274
CleansUpAfterNotify(job) == job.kind = "timeout"

\* Lines 256-274 and 332-351: both token reads, then sendFCM to each party
\* with a token (both calls are made before Promise.all awaits them), then, in
\* the timeout callback only, the cleanup of line 351.  A failed token read
\* (ok = FALSE) or a rejected send throws into the catch block.  These awaits
\* touch no shared state, so they are one step, taken when the last of them
\* resolves.
Notify(j, ok, delivered) ==
    /\ jobs[j].pc = "notify"
    /\ delivered \in DeliveryOutcomes(jobs[j])
    /\ LET w == jobs[j].walk
           sends == [u \in TokensOf(jobs[j]) |-> sendFCM(u \in delivered)]
           returned == ok /\ \A u \in TokensOf(jobs[j]) : sends[u] = "resolved"
           cleanup == returned /\ CleansUpAfterNotify(jobs[j])
           finished == [jobs EXCEPT ![j] = Finished(@)]
       IN /\ jobs' = IF cleanup THEN cancelExistingJobs(finished, activeJobs, w)
                     ELSE IF returned THEN finished
                     ELSE Caught(jobs, activeJobs, j)
          /\ activeJobs' = IF cleanup THEN activeJobsDelete(activeJobs, w) ELSE activeJobs
          /\ last' = [NoLast EXCEPT !.op = "notify", !.job = j,
                        !.outcome = IF returned THEN "go" ELSE "caught",
                        !.attempted = IF ok THEN TokensOf(jobs[j]) ELSE {},
                        !.delivered = IF ok THEN delivered ELSE {},
                        !.cancelled = IF cleanup THEN CancelledHandles(activeJobs, w) ELSE {}]
    /\ resp' = NoResp
    /\ UNCHANGED <<clock, walks, requests, users, commits>>

\* ------------------------------------------------- the rest of the application
\* the walk is started by its parties
ExternalStatus(w, s) ==
    /\ w \in ExternalWalks
    /\ walks[w].exists
    /\ walks[w].status = "Accepted"
    /\ walks' = [walks EXCEPT ![w].status = s]
    /\ resp' = NoResp
    /\ last' = NoLast
    /\ UNCHANGED <<clock, requests, users, jobs, activeJobs, commits>>

ExternalDeleteWalk(w) ==
    /\ w \in ExternalWalks
    /\ walks[w].exists
    /\ walks' = [walks EXCEPT ![w] = MissingDoc]
    /\ resp' = NoResp
    /\ last' = NoLast
    /\ UNCHANGED <<clock, requests, users, jobs, activeJobs, commits>>

\* ------------------------------------------------------------ specification
\* Clients ask for an instant that has passed, or for the present instant in
\* a request that is handled a millisecond later.
Next ==
    \/ \E req \in ValidRequests({"w1"}, {Past}) : ScheduleWalk(req, 0)
    \/ \E req \in ValidRequests({"w1"}, {clock}) : ScheduleWalk(req, 1)
    \/ Tick
    \/ \E j \in JobIds : Fire(j)
    \/ \E j \in JobIds, ok \in BOOLEAN : WalkGet(j, ok)
    \/ \E j \in JobIds, ok \in BOOLEAN : ActivationCommit(j, ok)
    \/ \E j \in JobIds, ok \in BOOLEAN : TimeoutCommit(j, ok)
    \/ \E j \in JobIds, ok \in BOOLEAN :
          \E delivered \in DeliveryOutcomes(jobs[j]) : Notify(j, ok, delivered)
    \/ \E w \in Walks : ExternalStatus(w, "Started")
    \/ \E w \in Walks : ExternalDeleteWalk(w)

Spec == Init /\ [][Next]_vars

\* Every kind of request, well-formed or not, against callbacks whose store
\* and transport calls succeed.
NextRequests ==
    \/ \E req \in ValidRequests({"w1"}, {Past, clock, Soon}), elapsed \in HandlerDelays :
          ScheduleWalk(req, elapsed)
    \/ \E req \in InvalidRequests : ScheduleWalk(req, 0)
    \/ Tick
    \/ \E j \in JobIds : Fire(j)
    \/ \E j \in JobIds : WalkGet(j, TRUE)
    \/ \E j \in JobIds : ActivationCommit(j, TRUE)
    \/ \E j \in JobIds : TimeoutCommit(j, TRUE)
    \/ \E j \in JobIds : Notify(j, TRUE, TokensOf(jobs[j]))

SpecRequests == Init /\ [][NextRequests]_vars

\* Both walks are scheduled, for an instant that has passed; every store call
\* of a callback of a walk in FaultyWalks may fail, the transport delivers,
\* and nobody else writes to the store.
StoreOutcomes(j) == IF jobs[j].walk \in FaultyWalks THEN BOOLEAN ELSE {TRUE}

NextWalks ==
    \/ \E req \in ValidRequests(Walks, {Past}) : ScheduleWalk(req, 0)
    \/ Tick
    \/ \E j \in JobIds : Fire(j)
    \/ \E j \in JobIds : \E ok \in StoreOutcomes(j) : WalkGet(j, ok)
    \/ \E j \in JobIds : \E ok \in StoreOutcomes(j) : ActivationCommit(j, ok)
    \/ \E j \in JobIds : \E ok \in StoreOutcomes(j) : TimeoutCommit(j, ok)
    \/ \E j \in JobIds : \E ok \in StoreOutcomes(j) : Notify(j, ok, TokensOf(jobs[j]))

SpecWalks == Init /\ [][NextWalks]_vars

\* The walk stays Accepted, every store call succeeds and the timers fire:
\* requests whose timeout instant lies within the horizon of the clock, and
\* callbacks that are not held up for ever.
WithinHorizon(req) ==
    TimeoutDate(ScheduledDate(ParseDate(req.scheduledTimestampISO).ms, clock))
        <= MaxMinutes * Minute

CallbackStep ==
    \E j \in JobIds :
        \/ Fire(j)
        \/ WalkGet(j, TRUE)
        \/ ActivationCommit(j, TRUE)
        \/ TimeoutCommit(j, TRUE)
        \/ \E delivered \in DeliveryOutcomes(jobs[j]) : Notify(j, TRUE, delivered)

NextLive ==
    \/ \E req \in ValidRequests({"w1"}, {Past}) : WithinHorizon(req) /\ ScheduleWalk(req, 0)
    \/ \E req \in ValidRequests({"w1"}, {clock}) : WithinHorizon(req) /\ ScheduleWalk(req, 1)
    \/ Tick
    \/ CallbackStep

SpecLive == Init /\ [][NextLive]_vars /\ WF_vars(Tick) /\ WF_vars(CallbackStep)

\* ================================================================ properties
LastJob == jobs[last.job]
ReadBy(kind) == last.op = "get" /\ last.outcome # "caught" /\ LastJob.kind = kind
CommittedBy(kind) == last.op = "commit" /\ last.outcome = "go" /\ LastJob.kind = kind
SawAccepted == last.snap.exists /\ last.snap.status = "Accepted"
RegisteredLive(w, kind) ==
    {j \in {activeJobs[w].activation, activeJobs[w].timeout} \ {0} :
        jobs[j].pc = "pending" /\ jobs[j].kind = kind}
StoreUnchanged == UNCHANGED <<walks, requests, users, commits>>
DoneStaysDone == \A j \in JobIds : jobs[j].pc = "done" => jobs'[j].pc = "done"
OtherJobsUnchanged(j) == \A k \in JobIds \ {j} : jobs'[k] = jobs[k]
NotifiedBy(kind) == last.op = "notify" /\ LastJob.kind = kind
FailedCommitBy(kind) == last.op = "commit" /\ last.outcome = "caught" /\ LastJob.kind = kind
\* the handler creates the two jobs of a pair one after the other
SamePair(j, k) ==
    \/ j = k
    \/ /\ jobs[j].registered /\ jobs[k].registered
       /\ \/ jobs[j].kind = "activation" /\ k = j + 1
          \/ jobs[j].kind = "timeout" /\ k = j - 1

\* C1: right after the second of two successive successful schedule requests
\* for a walk, activeJobs holds exactly one live activation job and one live
\* timeout job for it (the new ones), and cancel() was called on both jobs of
\* the first pair, which are cancelled.
C1_TwoSchedules ==
    (resp.status = 200 /\ resp.again) =>
        /\ RegisteredLive(resp.req.walkId, "activation") = {resp.activation}
        /\ RegisteredLive(resp.req.walkId, "timeout") = {resp.timeout}
        /\ resp.prevEntry # NoEntry
        /\ resp.cancelled = {resp.prevEntry.activation, resp.prevEntry.timeout}
        /\ \A j \in resp.cancelled : jobs[j].pc = "cancelled"

C1_Witness ==
    /\ resp.status = 200 /\ resp.again
    /\ Cardinality(resp.cancelled) = 2
    /\ activeJobs[resp.req.walkId].activation = resp.activation

\* C2: in every reachable state each walk has at most one live activation job
\* and at most one live timeout job, whether or not activeJobs refers to them.
C2_AtMostOneLivePair ==
    \A w \in Walks : /\ Cardinality(LiveJobs(w, "activation")) <= 1
                     /\ Cardinality(LiveJobs(w, "timeout")) <= 1

\* C3: an activation callback whose read shows the walk missing or in a status
\* other than Accepted ends there: the step writes nothing to the store, sends
\* nothing, and the callback never takes another step.
C3_ActivationSkips ==
    /\ [](ReadBy("activation") /\ ~SawAccepted =>
            LastJob.pc = "done" /\ last.attempted = {})
    /\ [][(ReadBy("activation")' /\ ~SawAccepted') => StoreUnchanged]_vars
    /\ [][DoneStaysDone]_vars

C3_Witness ==
    /\ ReadBy("activation") /\ last.snap.exists /\ last.snap.status = "Started"
    /\ LastJob.pc = "done"

\* C4: a timeout callback whose read shows the walk missing or in a status
\* other than Accepted ends there: the walk, the requests record and both
\* parties' activeWalkId stay as they are and nothing is sent.
C4_TimeoutSkips ==
    /\ [](ReadBy("timeout") /\ ~SawAccepted =>
            LastJob.pc = "done" /\ last.attempted = {})
    /\ [][(ReadBy("timeout")' /\ ~SawAccepted') =>
            (UNCHANGED <<walks, requests, users>> /\ DoneStaysDone)]_vars

C4_Witness ==
    /\ ReadBy("timeout") /\ last.snap.exists /\ last.snap.status = "Started"
    /\ last.snap.activeWalkIdSet /\ LastJob.pc = "done"

\* C5: an activation callback that reads the walk after an activation batch
\* has committed for it ends at that read, writing and sending nothing.
C5_NoSecondActivation ==
    /\ [](ReadBy("activation") /\ last.afterActivation =>
            LastJob.pc = "done" /\ last.attempted = {})
    /\ [][(ReadBy("activation")' /\ last'.afterActivation) =>
            (StoreUnchanged /\ DoneStaysDone)]_vars

C5_Witness ==
    /\ ReadBy("activation") /\ last.afterActivation
    /\ SawAccepted /\ last.snap.activeWalkIdSet /\ last.outcome = "skip"

\* C6 as stated: no expiry batch commits for a timeout callback that read the
\* walk with status Accepted and activeWalkIdSet = true.
C6_NoExpiryAfterActivation ==
    ~(CommittedBy("timeout") /\ last.snap.status = "Accepted" /\ last.snap.activeWalkIdSet)

\* C6 amended: the timeout callback decides on the status alone.  It goes on to
\* the expiry batch exactly when its read shows status Accepted, whether or
\* not activeWalkIdSet is true, and a committed batch leaves the walk Expired.
C6_ExpiryOnStatusAlone ==
    /\ ReadBy("timeout") => (LastJob.pc = "commit" <=> SawAccepted)
    /\ CommittedBy("timeout") => walks[LastJob.walk].status = "Expired"

C6_Witness ==
    /\ CommittedBy("timeout") /\ last.snap.activeWalkIdSet
    /\ walks[LastJob.walk].status = "Expired"

\* C7: right after the expiry batch commits, neither the sender's nor the
\* recipient's user record has an activeWalkId field.
C7_FieldDeleted ==
    CommittedBy("timeout") =>
        /\ users[LastJob.sender].activeWalkId = Absent
        /\ users[LastJob.recipient].activeWalkId = Absent

C7_Witness ==
    /\ CommittedBy("timeout")
    /\ commits[LastJob.walk].activation > 0
    /\ users[LastJob.sender].activeWalkId = Absent
    /\ users[LastJob.recipient].activeWalkId = Absent

C9_Rejected ==
    /\ [](resp.status \in {200, 500} =>
            /\ resp.req.walkId # Missing /\ resp.req.senderId # Missing
            /\ resp.req.recipientId # Missing
            /\ resp.req.scheduledTimestampISO.kind = "iso")
    /\ [][resp'.status = 400 => UNCHANGED <<jobs, activeJobs>>]_vars

C9_Witness ==
    /\ resp.status = 400
    /\ activeJobs["w1"] # NoEntry
    /\ Live(activeJobs["w1"].activation) /\ Live(activeJobs["w1"].timeout)

\* C10: a job that was registered and is no longer in activeJobs is not pending,
\* and a cancelled job stays cancelled: the jobs of a superseded pair that had
\* not started never run.
C10_Superseded ==
    /\ [](\A j \in JobIds :
            (jobs[j].registered /\ j \notin {activeJobs[jobs[j].walk].activation,
                                             activeJobs[jobs[j].walk].timeout})
                => jobs[j].pc # "pending")
    /\ [][\A j \in JobIds : jobs[j].pc = "cancelled" => jobs'[j].pc = "cancelled"]_vars

C10_Witness ==
    /\ resp.status = 200 /\ resp.prevEntry # NoEntry
    /\ jobs[resp.prevEntry.timeout].pc = "cancelled"
    /\ jobs[resp.prevEntry.activation].pc = "done"
    /\ Live(resp.activation)

\* C11 as stated: when the activation callback has committed its batch and
\* finished, activeJobs has no entry for the walk (and the callback cancelled
\* nothing).
C11_ActivationDeregisters ==
    (NotifiedBy("activation") /\ last.outcome = "go") =>
        (activeJobs[LastJob.walk] = NoEntry /\ last.cancelled = {})

\* C11 amended: the activation callback that has committed its batch finishes
\* without touching activeJobs or any other job: the walk's entry stays as it
\* was and the sibling timeout job is not cancelled.
C11_ActivationKeepsEntry ==
    [][(NotifiedBy("activation")' /\ last'.outcome = "go") =>
         /\ activeJobs' = activeJobs
         /\ jobs'[last'.job].pc = "done"
         /\ OtherJobsUnchanged(last'.job)]_vars

C11_Witness ==
    /\ NotifiedBy("activation") /\ last.outcome = "go"
    /\ activeJobs[LastJob.walk].activation = last.job
    /\ Live(activeJobs[LastJob.walk].timeout)

\* C12: when the timeout callback that committed the expiry batch has finished,
\* activeJobs has no entry for the walk, whatever happened to the token reads
\* and the sends.
C12_TimeoutDeregisters ==
    NotifiedBy("timeout") => activeJobs[LastJob.walk] = NoEntry

\* C13 as stated: a callback whose read shows its precondition false (walk
\* missing, status not Accepted, or, for the activation, activeWalkIdSet true)
\* returns with no entry for the walk in activeJobs.
C13_FalsePreconditionDeregisters ==
    (/\ last.op = "get" /\ last.outcome # "caught"
     /\ \/ ~SawAccepted
        \/ LastJob.kind = "activation" /\ last.snap.activeWalkIdSet)
    => (LastJob.pc = "done" /\ activeJobs[LastJob.walk] = NoEntry)

\* C13 amended: a callback whose read shows the walk missing or in a status
\* other than Accepted returns with no entry for the walk in activeJobs; an
\* activation callback whose read shows an Accepted walk with activeWalkIdSet
\* true returns without touching activeJobs or any other job.
C13_DeregistersUnlessActivated ==
    /\ []((last.op = "get" /\ last.outcome # "caught" /\ ~SawAccepted) =>
            (LastJob.pc = "done" /\ activeJobs[LastJob.walk] = NoEntry))
    /\ [][(ReadBy("activation")' /\ SawAccepted' /\ last'.snap.activeWalkIdSet) =>
            /\ activeJobs' = activeJobs
            /\ jobs'[last'.job].pc = "done"
            /\ OtherJobsUnchanged(last'.job)]_vars

C13_Witness ==
    /\ ReadBy("activation") /\ SawAccepted /\ last.snap.activeWalkIdSet
    /\ LastJob.pc = "done"
    /\ activeJobs[LastJob.walk].activation = last.job
    /\ Live(activeJobs[LastJob.walk].timeout)

\* C14: when the commit of the activation batch fails, the step changes no
\* walk, requests or user record, sends nothing, leaves activeJobs and every
\* other job (the sibling timeout job too) as they were, and the callback is
\* finished for good.
C14_FailedActivationCommit ==
    /\ [](FailedCommitBy("activation") =>
            (LastJob.pc = "done" /\ last.attempted = {}))
    /\ [][FailedCommitBy("activation")' =>
            /\ UNCHANGED <<walks, requests, users, commits, activeJobs>>
            /\ OtherJobsUnchanged(last'.job)]_vars
    /\ [][\A j \in JobIds : jobs[j].pc = "done" => jobs'[j] = jobs[j]]_vars

C14_Witness ==
    /\ FailedCommitBy("activation")
    /\ walks[LastJob.walk].exists /\ ~walks[LastJob.walk].activeWalkIdSet
    /\ activeJobs[LastJob.walk].activation = last.job
    /\ Live(activeJobs[LastJob.walk].timeout)

\* C15: the activation callback sends only after its batch has committed, and
\* when its token reads succeed it sends to exactly the parties that have a
\* token: a party without one is skipped and the other party is still sent to.
C15_Notifications ==
    NotifiedBy("activation") =>
        /\ commits[LastJob.walk].activation > 0
        /\ walks[LastJob.walk].activeWalkIdSet
        /\ last.outcome = "go" =>
              /\ last.attempted = {u \in {LastJob.sender, LastJob.recipient} :
                                     fcmToken[u] # Absent}
              /\ last.delivered = last.attempted

C15_Witness ==
    /\ NotifiedBy("activation") /\ last.outcome = "go"
    /\ LastJob.sender = "u3" /\ fcmToken["u3"] = Absent
    /\ last.attempted = {"u2"} /\ last.delivered = {"u2"}

\* C16: when a send fails, the callback still attempts the send to every
\* party with a token, returns normally (nothing is thrown), and the step
\* changes no store record.
C16_SendFailure ==
    /\ []((last.op = "notify" /\ last.delivered # last.attempted) =>
            /\ last.outcome = "go"
            /\ LastJob.pc = "done"
            /\ last.attempted = {u \in {LastJob.sender, LastJob.recipient} :
                                   fcmToken[u] # Absent})
    /\ [][(last'.op = "notify" /\ last'.delivered # last'.attempted) =>
            StoreUnchanged]_vars

C16_Witness ==
    /\ last.op = "notify" /\ last.outcome = "go"
    /\ last.attempted = {"u1", "u2"} /\ last.delivered = {"u2"}
    /\ commits[LastJob.walk].timeout > 0

C18_ActivationOnce ==
    \A w \in Walks :
        /\ commits[w].activation <= 1
        /\ Cardinality({j \in JobIds : /\ jobs[j].walk = w
                                        /\ jobs[j].kind = "activation"
                                        /\ jobs[j].pc = "notify"}) <= 1

\* C19: no step changes a walk's status from Started to Expired.
C19_NoExpiryAfterStart ==
    [][\A w \in Walks : walks[w].status = "Started" => walks'[w].status # "Expired"]_vars

\* C20: no walk is Expired while a party's activeWalkId is that walk's ID.
C20_NoActiveWalkIdOnExpired ==
    \A w \in Walks, u \in Users :
        ~(walks[w].exists /\ walks[w].status = "Expired" /\ users[u].activeWalkId = w)

\* C21: a callback's cleanup cancels only jobs of the callback's own pair and
\* removes an activeJobs entry only if the entry is that pair; every other
\* cancellation and removal is the work of a schedule request.
C21_CleanupOfOwnPairOnly ==
    [][last'.op # "none" =>
         /\ \A k \in JobIds :
               (jobs[k].pc = "pending" /\ jobs'[k].pc = "cancelled") =>
                   SamePair(last'.job, k)
         /\ \A w \in Walks :
               (activeJobs[w] # NoEntry /\ activeJobs'[w] = NoEntry) =>
                   last'.job \in {activeJobs[w].activation, activeJobs[w].timeout}]_vars

\* C22: every pending job is one of the two handles of the activeJobs entry of
\* its walk.
C22_LiveJobsRegistered ==
    \A j \in JobIds :
        Live(j) => j \in {activeJobs[jobs[j].walk].activation,
                          activeJobs[jobs[j].walk].timeout}

\* C23: a batch committed by a callback of walk W leaves the records of the
\* users other than its sender and recipient and of the walks other than W as
\* they were, and an expiry batch leaves a party's activeWalkId alone when it
\* refers to a walk other than W.
C23_OnlyOwnWalk ==
    [][(last'.op = "commit" /\ last'.outcome = "go") =>
         LET job == jobs[last'.job]
         IN /\ \A u \in Users \ {job.sender, job.recipient} : users'[u] = users[u]
            /\ \A w \in Walks \ {job.walk} :
                  walks'[w] = walks[w] /\ requests'[w] = requests[w]
            /\ job.kind = "timeout" =>
                  \A u \in Users :
                      users[u].activeWalkId \notin {Absent, job.walk} =>
                          users'[u] = users[u]]_vars

\* C24: the expiry is all or nothing.  Right after a timeout callback's commit
\* the walk is Expired, the requests record it found is Expired and neither
\* party has an activeWalkId; a failed commit changes none of them; and no
\* other step of the scheduler makes any one of these changes.
C24_ExpiryAtomic ==
    /\ [](CommittedBy("timeout") =>
            /\ walks[LastJob.walk].status = "Expired"
            /\ walks[LastJob.walk].expiredAt
            /\ LastJob.reqExists => /\ requests[LastJob.walk].status = "Expired"
                                    /\ requests[LastJob.walk].expiredAt
            /\ users[LastJob.sender].activeWalkId = Absent
            /\ users[LastJob.recipient].activeWalkId = Absent)
    /\ [][FailedCommitBy("timeout")' => UNCHANGED <<walks, requests, users>>]_vars
    /\ [][(\/ \E w \in Walks : walks'[w].status = "Expired" /\ walks[w].status # "Expired"
           \/ \E w \in Walks : requests'[w] # requests[w]
           \/ \E u \in Users : /\ users'[u].activeWalkId = Absent
                                /\ users[u].activeWalkId # Absent)
            => CommittedBy("timeout")']_vars

C24_Witness ==
    /\ CommittedBy("timeout") /\ LastJob.reqExists
    /\ commits[LastJob.walk].activation > 0
    /\ requests[LastJob.walk].status = "Expired"
    /\ walks[LastJob.walk].status = "Expired"

\* C25: a walk that was scheduled and stays Accepted is eventually Expired,
\* also when it is rescheduled while a callback of an earlier pair is running.
C25_EventuallyExpired ==
    (resp.status = 200 /\ walks[resp.req.walkId].status = "Accepted")
        ~> (walks["w1"].status = "Expired")

C25_Witness ==
    /\ walks["w1"].status = "Expired"
    /\ commits["w1"].activation > 0
    /\ \E j, k \in JobIds :
          /\ j < k /\ jobs[j].kind = "activation" /\ jobs[k].kind = "activation"
          /\ jobs[j].registered /\ jobs[k].registered
          /\ jobs[j].pc = "done" /\ jobs[k].pc = "done"

C27_RemovalIdempotent ==
    \A w \in Walks :
        LET once == cancelExistingJobs(jobs, activeJobs, w)
            reg == activeJobsDelete(activeJobs, w)
        IN /\ activeJobs[w] = NoEntry => (once = jobs /\ reg = activeJobs)
           /\ reg[w] = NoEntry
           /\ \A h \in {activeJobs[w].activation, activeJobs[w].timeout} \ {0} :
                 once[h].pc # "pending"
           /\ cancelExistingJobs(once, reg, w) = once
           /\ activeJobsDelete(reg, w) = reg
           /\ \A v \in Walks \ {w} : reg[v] = activeJobs[v]
           /\ \A k \in JobIds :
                 k \notin {activeJobs[w].activation, activeJobs[w].timeout} =>
                     once[k] = jobs[k]

C27_Witness ==
    /\ resp.status = 200 /\ resp.prevEntry = NoEntry /\ resp.cancelled = {}
    /\ \E v \in Walks \ {resp.req.walkId} :
          /\ activeJobs[v] # NoEntry
          /\ Live(activeJobs[v].activation) /\ Live(activeJobs[v].timeout)

====
